---- MODULE Spec2Model ----
(***************************************************************************)
(* Model of projects/nerre/eval.py: the brat annotation normaliser         *)
(* (normaliseAnnotations), the scorer built on it (calculateMeasures) and  *)
(* the agreement measure (calculateIAA); and of the loading of             *)
(* projects/memn/memn2n/memn2n.py by a training script.                    *)
(*                                                                         *)
(* Strings are sequences of atoms.  An atom is a maximal run of characters *)
(* that none of the program's split/replace calls cuts: a label, an        *)
(* identifier, a decimal offset, or one of the separators " " and "_".     *)
(* A line of an .ann file is the sequence of its tab-separated fields      *)
(* (the result of l.strip().split("\t")), each field a string.             *)
(***************************************************************************)
EXTENDS Integers, Sequences, FiniteSets, TLC

\* --------------------------------------------------------------- bounds
\* longest file handed to normaliseAnnotations under SpecNorm
MaxLines == 4
\* most .ann files in the gold folder under Spec
MaxDocs == 2
\* most relation lines after the entities of a file of RelFiles
MaxRels == 3
\* largest vocab_size, embedding_size and number of batch_fit calls of a
\* training script under SpecMem
MaxVocab == 4
MaxEmbed == 3
MaxBatches == 5

\* ------------------------------------------------------ string primitives
SP == " "
US == "_"

Range(s) == {s[i] : i \in 1..Len(s)}

\* str.split(sep): the pieces between the separators, never an empty list
RECURSIVE SplitFrom(_, _, _, _)
SplitFrom(s, sep, i, cur) ==
    IF i > Len(s) THEN <<cur>>
    ELSE IF s[i] = sep THEN <<cur>> \o SplitFrom(s, sep, i + 1, <<>>)
    ELSE SplitFrom(s, sep, i + 1, Append(cur, s[i]))

Split(s, sep) == SplitFrom(s, sep, 1, <<>>)

\* sep.join(parts)
RECURSIVE Join(_, _)
Join(parts, sep) ==
    IF Len(parts) = 0 THEN <<>>
    ELSE IF Len(parts) = 1 THEN parts[1]
    ELSE parts[1] \o <<sep>> \o Join(Tail(parts), sep)

\* str.replace(a, b) for a single-atom a
Replace(s, a, b) == [i \in 1..Len(s) |-> IF s[i] = a THEN b ELSE s[i]]

\* str.replace(a, "")
Remove(s, a) == SelectSeq(s, LAMBDA x : x # a)

\* r_g_offs[0].endswith("-of")
EndsWithOf(s) == Len(s) > 0 /\ s[Len(s)] \in {"Hyponym-of", "Synonym-of"}

\* r_g[0].startswith("R")
StartsWithR(s) == Len(s) > 0 /\ s[1] \in {"R", "R1", "R2", "R3", "R4", "R5"}

\* the characters of an atom, as code points (digits) or the code of its
\* first letter: what Python's < and > on str compare
Chars(a) ==
    CASE a = "0" -> <<48>>
      [] a = "5" -> <<53>>
      [] a = "9" -> <<57>>
      [] a = "10" -> <<49, 48>>
      [] a = "15" -> <<49, 53>>
      [] a = "20" -> <<50, 48>>
      [] a = SP -> <<32>>
      [] a = US -> <<95>>
      [] OTHER -> <<65>>

RECURSIVE StrChars(_)
StrChars(s) == IF Len(s) = 0 THEN <<>> ELSE Chars(s[1]) \o StrChars(Tail(s))

RECURSIVE SeqLess(_, _)
SeqLess(a, b) ==
    IF Len(b) = 0 THEN FALSE
    ELSE IF Len(a) = 0 THEN TRUE
    ELSE IF a[1] # b[1] THEN a[1] < b[1]
    ELSE SeqLess(Tail(a), Tail(b))

\* Python's s < t on two str values: lexicographic on the characters
StrLess(s, t) == SeqLess(StrChars(s), StrChars(t))

\* list.index(x): position of the first element equal to x (0 when absent,
\* where Python raises ValueError)
IndexOf(seq, x) ==
    IF \E i \in 1..Len(seq) : seq[i] = x
    THEN CHOOSE i \in 1..Len(seq) : seq[i] = x /\ \A j \in 1..(i - 1) : seq[j] # x
    ELSE 0

\* list(set(xs)): the elements without repetition, in the order the hash
\* table yields them: arbitrary, but the same for the same set in one run
RECURSIVE SetToList(_)
SetToList(S) ==
    IF S = {} THEN <<>>
    ELSE LET x == CHOOSE y \in S : TRUE IN <<x>> \o SetToList(S \ {x})

\* ------------------------------------------------- normaliseAnnotations
\* value of the locals ent1, ent2 before any assignment: reading it raises
\* UnboundLocalError
UNBOUND == <<"<unbound>">>

\* the locals of normaliseAnnotations at the top of its first loop
NormStart ==
    [res_full_anno |-> <<>>, res_anno |-> <<>>, spans_anno |-> <<>>,
     rels_anno |-> <<>>, ent1 |-> UNBOUND, ent2 |-> UNBOUND, raised |-> FALSE]

\* the inner loop "for l in res_full_anno" that resolves one argument
\* identifier: every line with that identifier assigns, the last one stays;
\* with no such line the variable keeps what it held before
RECURSIVE LookupEnt(_, _, _)
LookupEnt(lines, arg, cur) ==
    IF Len(lines) = 0 THEN cur
    ELSE LookupEnt(Tail(lines), arg,
                   IF lines[1][1] = arg THEN Replace(lines[1][2], SP, US) ELSE cur)

\* SynonymOrder that swaps whenever the two start offsets differ
SynonymOrderIfDiffer(ent1, ent2) ==
    IF Split(ent1, US)[2] # Split(ent2, US)[2] THEN <<ent2, ent1>> ELSE <<ent1, ent2>>

\* lines 219-225 for a Synonym-of relation: the two references are swapped
\* when ent1_spl[1] > ent2_spl[1], a comparison of two str values
SynonymOrder(ent1, ent2) ==
    IF StrLess(Split(ent2, US)[2], Split(ent1, US)[2]) THEN <<ent2, ent1>> ELSE <<ent1, ent2>>

\* a relation line: the body of "if r_g_offs[0].endswith('-of')"
RelationStep(st, r_g_offs) ==
    IF Len(r_g_offs) < 3 THEN [st EXCEPT !.raised = TRUE]
    ELSE
    LET arg1 == Remove(r_g_offs[2], "Arg1:")
        arg2 == Remove(r_g_offs[3], "Arg2:")
        e1 == LookupEnt(st.res_full_anno, arg1, st.ent1)
        e2 == LookupEnt(st.res_full_anno, arg2, st.ent2)
        isSyn == r_g_offs[1] = <<"Synonym-of">>
        ents == IF isSyn THEN SynonymOrder(e1, e2) ELSE <<e1, e2>>
        ent1 == ents[1]
        ent2 == ents[2]
    IN  IF e1 = UNBOUND \/ e2 = UNBOUND THEN [st EXCEPT !.raised = TRUE]
        ELSE IF isSyn /\ (Len(Split(e1, US)) < 2 \/ Len(Split(e2, US)) < 2)
        THEN [st EXCEPT !.raised = TRUE, !.ent1 = e1, !.ent2 = e2]
        ELSE [st EXCEPT
                !.ent1 = ent1, !.ent2 = ent2,
                !.spans_anno = Append(@, Join(<<ent1, ent2>>, SP)),
                !.res_anno = Append(@, Join(<<r_g_offs[1], ent1, ent2>>, SP)),
                !.rels_anno = Append(@, Join(<<r_g_offs[1], ent1, ent2>>, SP))]

\* an entity line: the try block of the else branch; IndexError on a
\* missing offset is caught and nothing is appended
EntityStep(st, r_g, r_g_offs, remove_anno) ==
    IF Len(r_g_offs) < 3 THEN st
    ELSE [st EXCEPT
            !.spans_anno = Append(@, Join(<<r_g_offs[2], r_g_offs[3]>>, SP)),
            !.res_anno = Append(@, IF "types" \in remove_anno
                                   THEN <<"KEYPHRASE-NOTYPES">> ELSE r_g[2])]

\* one iteration of "for l in file_anno"
LineStep(st, l, remove_anno) ==
    IF st.raised THEN st
    ELSE IF Len(l) < 2 THEN [st EXCEPT !.raised = TRUE]
    ELSE
    LET r_g_offs == Split(l[2], SP) IN
        IF "rel" \in remove_anno /\ EndsWithOf(r_g_offs[1]) THEN st
        ELSE LET st1 == [st EXCEPT !.res_full_anno = Append(@, l)] IN
             IF EndsWithOf(r_g_offs[1]) THEN RelationStep(st1, r_g_offs)
             ELSE EntityStep(st1, l, r_g_offs, remove_anno)

RECURSIVE ReadLines(_, _, _)
ReadLines(st, file_anno, remove_anno) ==
    IF Len(file_anno) = 0 THEN st
    ELSE ReadLines(LineStep(st, file_anno[1], remove_anno), Tail(file_anno), remove_anno)

\* "for r2 in rels_anno" for one Synonym-of relation r_offs: the list is
\* rewritten in place while it is iterated, so r2 is the element now at j
RECURSIVE RewriteInner(_, _, _)
RewriteInner(rels, r_offs, j) ==
    IF j > Len(rels) THEN rels
    ELSE
    LET r2 == rels[j]
        r2_offs == Split(r2, SP)
        isHyp == r2_offs[1] = <<"Hyponym-of">>
        head == Join(<<r2_offs[1], r_offs[3], r2_offs[3]>>, SP)
        tail == Join(<<r2_offs[1], r2_offs[2], r_offs[3]>>, SP)
        rels1 == IF isHyp /\ r_offs[2] = r2_offs[2]
                 THEN [rels EXCEPT ![IndexOf(rels, r2)] = head]
                 ELSE rels
        \* rels_anno.index(r2) raises ValueError when the head rewrite
        \* replaced the only copy of r2: the except clause continues
        rels2 == IF isHyp /\ r_offs[2] = r2_offs[3] /\ IndexOf(rels1, r2) # 0
                 THEN [rels1 EXCEPT ![IndexOf(rels1, r2)] = tail]
                 ELSE rels1
    IN  RewriteInner(rels2, r_offs, j + 1)

\* "for r in rels_anno": the reordered r of line 247 is never read again
\* (r_offs is not recomputed), so only the Synonym-of scan has an effect
RECURSIVE RewritePass(_, _)
RewritePass(rels, i) ==
    IF i > Len(rels) THEN rels
    ELSE LET r_offs == Split(rels[i], SP) IN
         IF r_offs[1] = <<"Synonym-of">>
         THEN RewritePass(RewriteInner(rels, r_offs, 1), i + 1)
         ELSE RewritePass(rels, i + 1)

\* the list at the top of iteration i of "for r in rels_anno": the relations
\* before position i have been processed
RECURSIVE RewrittenBefore(_, _)
RewrittenBefore(rels, i) ==
    IF i <= 1 THEN rels
    ELSE LET prev == RewrittenBefore(rels, i - 1)
             r_offs == Split(prev[i - 1], SP)
         IN  IF r_offs[1] = <<"Synonym-of">> THEN RewriteInner(prev, r_offs, 1) ELSE prev

\* "for r in res_full_anno": relation lines are left out, every other line
\* takes the label and span at the index of its first occurrence; an index
\* past the end of res_anno raises IndexError after the line was appended
RECURSIVE KeepEntities(_, _, _)
KeepEntities(st, i, out) ==
    IF i > Len(st.res_full_anno) THEN out
    ELSE
    LET r == st.res_full_anno[i]
        ind == IndexOf(st.res_full_anno, r)
    IN  IF StartsWithR(r[1]) \/ r[1] = <<"*">> THEN KeepEntities(st, i + 1, out)
        ELSE IF ind > Len(st.res_anno)
        THEN KeepEntities(st, i + 1, [out EXCEPT !.res_full = Append(@, r)])
        ELSE KeepEntities(st, i + 1,
                 [out EXCEPT !.res_full = Append(@, r),
                             !.res = Append(@, st.res_anno[ind]),
                             !.spans = Append(@, st.spans_anno[ind])])

\* "for r in rels_anno" at the end: one entry per distinct relation string
RECURSIVE AddRelations(_, _)
AddRelations(rels, out) ==
    IF Len(rels) = 0 THEN out
    ELSE LET r == rels[1]
             r_offs == Split(r, SP)
         IN  AddRelations(Tail(rels),
                 [out EXCEPT !.res_full = Append(@, <<<<"R">>, r>>),
                             !.res = Append(@, r),
                             !.spans = Append(@, Join(<<r_offs[2], r_offs[3]>>, SP))])

\* what a call that raised leaves behind: no return value
Raised == [raised |-> TRUE, res_full |-> <<>>, res |-> <<>>, spans |-> <<>>, rels |-> <<>>]

\* DedupRelations without line 268: the list is returned as it is
DedupRelationsKeepAll(rels) == rels

\* rels_anno = list(set(rels_anno))
DedupRelations(rels) == SetToList(Range(rels))

\* normaliseAnnotations(file_anno, remove_anno): the four returned lists
NormaliseAnnotations(file_anno, remove_anno) ==
    LET st == ReadLines(NormStart, file_anno, remove_anno) IN
    IF st.raised THEN Raised
    ELSE
    LET rels == DedupRelations(RewritePass(st.rels_anno, 1))
        empty == [raised |-> FALSE, res_full |-> <<>>, res |-> <<>>,
                  spans |-> <<>>, rels |-> rels]
    IN  AddRelations(rels, KeepEntities(st, 1, empty))

\* ----------------------------------------------------------- input files
\* an entity line "id<TAB>label start end"
Ent(id, label, start, end) == <<<<id>>, <<label, SP, start, SP, end>>>>

\* a relation line "id<TAB>rel Arg1:a1 Arg2:a2"
Rel(id, rel, a1, a2) == <<<<id>>, <<rel, SP, "Arg1:", a1, SP, "Arg2:", a2>>>>

\* an entity line that lost its end offset: "id<TAB>label start"
Faulty(id, label, start) == <<<<id>>, <<label, SP, start>>>>

\* the lines files are made of under SpecNorm
LinePool ==
    { Ent("T1", "Process", "0", "5"),
      Ent("T2", "Task", "10", "15"),
      Ent("T3", "Task", "0", "5"),
      Faulty("T4", "Process", "9"),
      Rel("R1", "Hyponym-of", "T1", "T2"),
      Rel("R2", "Hyponym-of", "T9", "T2"),
      Rel("R3", "Synonym-of", "T2", "T1") }

RECURSIVE SeqsUpTo(_, _)
SeqsUpTo(S, n) ==
    IF n = 0 THEN {<<>>}
    ELSE LET shorter == SeqsUpTo(S, n - 1) IN
         shorter \cup {Append(f, x) : f \in shorter, x \in S}

\* three entities whose start offsets are 0, 10 and 9, and relation lines
\* over them: files that start with the entities and go on with relations
Entities ==
    << Ent("T1", "Process", "0", "5"),
       Ent("T2", "Task", "10", "15"),
       Ent("T5", "Material", "9", "10") >>

RelPool ==
    { Rel("R3", "Synonym-of", "T2", "T1"),
      Rel("R5", "Synonym-of", "T5", "T2"),
      Rel("R1", "Hyponym-of", "T1", "T2"),
      Rel("R4", "Hyponym-of", "T1", "T1") }

RelFiles == {Entities \o f : f \in SeqsUpTo(RelPool, MaxRels)}

NormFiles == SeqsUpTo(LinePool, MaxLines) \cup RelFiles

\* the values of the remove_anno argument
RemoveAnnoArgs == {"", "rel", "types", "keys"}

\* lines 25-28: the argument becomes a list, "types" implies "rel"
RemoveAnnoList(arg) == IF arg = "types" THEN {"types", "rel"} ELSE {arg}

\* gold files of the folder scored under Spec
GoldFiles ==
    { <<Ent("T1", "Process", "0", "5")>>,
      <<Ent("T1", "Process", "0", "5"), Ent("T2", "Task", "0", "5")>>,
      <<Ent("T1", "Process", "0", "5"), Ent("T2", "Task", "10", "15"),
        Rel("R1", "Hyponym-of", "T1", "T2")>>,
      <<Rel("R2", "Hyponym-of", "T9", "T2")>> }

\* predicted files of the same names
PredFiles ==
    { <<Ent("T1", "Process", "0", "5")>>,
      <<Ent("T2", "Task", "10", "15")>>,
      <<Ent("T2", "Task", "0", "5")>>,
      <<Ent("T1", "Process", "0", "5"), Ent("T2", "Task", "10", "15"),
        Rel("R1", "Hyponym-of", "T1", "T2")>> }

\* ------------------------------------------------------------------ state
VARIABLES
    pc,             \* where the running function is
    remove_anno,    \* the remove_anno list
    ignoremissing,  \* the ignoremissing flag
    docs,           \* the files of flist_gold read so far, with their predictions
    res_all_gold,   \* accumulated gold labels
    res_all_pred,   \* accumulated predicted labels
    res_all_key,    \* for each accumulated position: <<document number, span key r>>
    targets,        \* labels to report
    metrics,        \* the metrics dict
    file_anno,      \* the file handed to normaliseAnnotations
    ret,            \* what normaliseAnnotations returned
    memn            \* the training script's MemN2N: its arguments and variables A, B

vars == <<pc, remove_anno, ignoremissing, docs, res_all_gold, res_all_pred,
          res_all_key, targets, metrics, file_anno, ret, memn>>

NONE == <<"NONE">>
NoMetrics == [l \in {} |-> 0]
\* no MemN2N object exists
NoModel == [vocab_size |-> 0, embedding_size |-> 0, batches |-> 0, A |-> <<>>, B |-> <<>>]

\* ----------------------------------------------------- calculateMeasures
\* res[spans.index(r)].split(" ")[0]
LabelAt(res, spans, r) == Split(res[IndexOf(spans, r)], SP)[1]

\* ScoreKeys without line 63: a key missing from the predictions appends
\* nothing to the predicted labels
RECURSIVE ScoreKeysNoElse(_, _, _, _, _)
ScoreKeysNoElse(keys, gold, pred, n, acc) ==
    IF Len(keys) = 0 THEN acc
    ELSE
    LET r == keys[1]
        inGold == r \in Range(gold.spans)
        target == LabelAt(gold.res, gold.spans, r)
        acc1 == [acc EXCEPT
                   !.gold = Append(@, IF inGold THEN target ELSE NONE),
                   !.targets = IF inGold /\ target \notin Range(@)
                               THEN Append(@, target) ELSE @,
                   !.pred = IF r \in Range(pred.spans)
                            THEN Append(@, LabelAt(pred.res, pred.spans, r))
                            ELSE @,
                   !.key = Append(@, <<n, r>>)]
    IN  ScoreKeysNoElse(Tail(keys), gold, pred, n, acc1)

\* ScoreKeys whose line 63 appends the gold label instead of "NONE"
RECURSIVE ScoreKeysCopyTarget(_, _, _, _, _)
ScoreKeysCopyTarget(keys, gold, pred, n, acc) ==
    IF Len(keys) = 0 THEN acc
    ELSE
    LET r == keys[1]
        inGold == r \in Range(gold.spans)
        target == LabelAt(gold.res, gold.spans, r)
        acc1 == [acc EXCEPT
                   !.gold = Append(@, IF inGold THEN target ELSE NONE),
                   !.targets = IF inGold /\ target \notin Range(@)
                               THEN Append(@, target) ELSE @,
                   !.pred = Append(@, IF r \in Range(pred.spans)
                                      THEN LabelAt(pred.res, pred.spans, r)
                                      ELSE target),
                   !.key = Append(@, <<n, r>>)]
    IN  ScoreKeysCopyTarget(Tail(keys), gold, pred, n, acc1)

\* lines 48-63 for the keys of one document, in iteration order
RECURSIVE ScoreKeys(_, _, _, _, _)
ScoreKeys(keys, gold, pred, n, acc) ==
    IF Len(keys) = 0 THEN acc
    ELSE
    LET r == keys[1]
        inGold == r \in Range(gold.spans)
        target == LabelAt(gold.res, gold.spans, r)
        acc1 == [acc EXCEPT
                   !.gold = Append(@, IF inGold THEN target ELSE NONE),
                   !.targets = IF inGold /\ target \notin Range(@)
                               THEN Append(@, target) ELSE @,
                   !.pred = Append(@, IF r \in Range(pred.spans)
                                      THEN LabelAt(pred.res, pred.spans, r)
                                      ELSE NONE),
                   !.key = Append(@, <<n, r>>)]
    IN  ScoreKeys(Tail(keys), gold, pred, n, acc1)

\* SpansAll that forgets the gold keys: set(spans_pred)
SpansAllPredOnly(gold, pred) == SetToList(Range(pred.spans))

\* spans_all = set(spans_gold + spans_pred), as the for loop iterates it
SpansAll(gold, pred) == SetToList(Range(gold.spans) \cup Range(pred.spans))

\* line 42: no predictions for the file
NoPredictions == [raised |-> FALSE, res_full |-> <<>>, res |-> <<>>, spans |-> <<>>, rels |-> <<>>]

Init ==
    /\ pc = "files"
    /\ \E a \in RemoveAnnoArgs : remove_anno = RemoveAnnoList(a)
    /\ ignoremissing \in BOOLEAN
    /\ docs = <<>>
    /\ res_all_gold = <<>>
    /\ res_all_pred = <<>>
    /\ res_all_key = <<>>
    /\ targets = <<>>
    /\ metrics = NoMetrics
    /\ file_anno = <<>>
    /\ ret = NoPredictions
    /\ memn = NoModel

Doc(ann, gold, missing, pred) == [ann |-> ann, gold |-> gold, missing |-> missing, pred |-> pred]

\* lines 32-33: a file of the folder that does not end in ".ann"
SkipOther ==
    /\ pc = "files"
    /\ Len(docs) < MaxDocs
    /\ docs' = Append(docs, Doc(FALSE, <<>>, TRUE, <<>>))
    /\ UNCHANGED <<memn, pc, remove_anno, ignoremissing, res_all_gold, res_all_pred,
                   res_all_key, targets, metrics, file_anno, ret>>

\* lines 36-40: the predicted file cannot be opened and ignoremissing is set
SkipMissing ==
    /\ pc = "files"
    /\ Len(docs) < MaxDocs
    /\ ignoremissing
    /\ \E g \in GoldFiles : docs' = Append(docs, Doc(TRUE, g, TRUE, <<>>))
    /\ UNCHANGED <<memn, pc, remove_anno, ignoremissing, res_all_gold, res_all_pred,
                   res_all_key, targets, metrics, file_anno, ret>>

\* Predicted without the except clause: the IOError leaves the function
PredictedNoExcept(missing, p) ==
    IF missing THEN Raised ELSE NormaliseAnnotations(p, remove_anno)

\* the predictions of one document: the parsed file, or line 42's empty lists
Predicted(missing, p) ==
    IF missing THEN NoPredictions ELSE NormaliseAnnotations(p, remove_anno)

\* lines 34-63 for one .ann file whose files both parse
ScoreDoc ==
    /\ pc = "files"
    /\ Len(docs) < MaxDocs
    /\ \E g \in GoldFiles, missing \in BOOLEAN, p \in PredFiles \cup {<<>>} :
         LET pred == Predicted(missing, p)
             gold == NormaliseAnnotations(g, remove_anno)
             acc == ScoreKeys(SpansAll(gold, pred), gold, pred, Len(docs) + 1,
                              [gold |-> res_all_gold, pred |-> res_all_pred,
                               key |-> res_all_key, targets |-> targets])
         IN  /\ missing => (~ignoremissing /\ p = <<>>)
             /\ (p = <<>>) => missing
             /\ ~pred.raised
             /\ ~gold.raised
             /\ docs' = Append(docs, Doc(TRUE, g, missing, p))
             /\ res_all_gold' = acc.gold
             /\ res_all_pred' = acc.pred
             /\ res_all_key' = acc.key
             /\ targets' = acc.targets
    /\ UNCHANGED <<memn, pc, remove_anno, ignoremissing, metrics, file_anno, ret>>

\* lines 37 and 44: normaliseAnnotations raises something that is no IOError
\* and the exception leaves calculateMeasures
ParseRaises ==
    /\ pc = "files"
    /\ Len(docs) < MaxDocs
    /\ \E g \in GoldFiles, missing \in BOOLEAN, p \in PredFiles \cup {<<>>} :
         LET pred == Predicted(missing, p)
         IN  /\ missing => (~ignoremissing /\ p = <<>>)
             /\ (p = <<>>) => missing
             /\ pred.raised \/ NormaliseAnnotations(g, remove_anno).raised
             /\ docs' = Append(docs, Doc(TRUE, g, missing, p))
    /\ pc' = "raised"
    /\ UNCHANGED <<memn, remove_anno, ignoremissing, res_all_gold, res_all_pred,
                   res_all_key, targets, metrics, file_anno, ret>>

\* ------------------------------------- precision_recall_fscore_support
\* a ratio; sklearn sets an undefined ratio (zero denominator) to 0.0
Frac(n, d) == IF d = 0 THEN [num |-> 0, den |-> 1] ELSE [num |-> n, den |-> d]

FracEq(a, b) == a.num * b.den = b.num * a.den
One == [num |-> 1, den |-> 1]
Zero == [num |-> 0, den |-> 1]

\* positions where gold and predicted are both label l
TruePos(l) == Cardinality({i \in 1..Len(res_all_gold) : res_all_gold[i] = l /\ res_all_pred[i] = l})
\* positions predicted as l
PredCount(l) == Cardinality({i \in 1..Len(res_all_pred) : res_all_pred[i] = l})
\* positions whose gold label is l: the support
TrueCount(l) == Cardinality({i \in 1..Len(res_all_gold) : res_all_gold[i] = l})

RECURSIVE SumOver(_, _)
SumOver(S, f) ==
    IF S = {} THEN 0
    ELSE LET x == CHOOSE y \in S : TRUE IN f[x] + SumOver(S \ {x}, f)

\* LabelMetrics with recall taken over all positions instead of the label's
LabelMetricsAllPositions(l) ==
    [precision |-> Frac(TruePos(l), PredCount(l)),
     recall |-> Frac(TruePos(l), Len(res_all_gold)),
     f1 |-> Frac(2 * TruePos(l), PredCount(l) + TrueCount(l)),
     support |-> TrueCount(l)]

\* average=None: one record per label of labels=targets (lines 68-78)
LabelMetrics(l) ==
    [precision |-> Frac(TruePos(l), PredCount(l)),
     recall |-> Frac(TruePos(l), TrueCount(l)),
     f1 |-> Frac(2 * TruePos(l), PredCount(l) + TrueCount(l)),
     support |-> TrueCount(l)]

\* average='micro' over labels=targets (lines 82-89): the counts are pooled
\* over the labels of targets, and only over them
MicroMetrics(L) ==
    LET tp == SumOver(L, [l \in L |-> TruePos(l)])
        pp == SumOver(L, [l \in L |-> PredCount(l)])
        tt == SumOver(L, [l \in L |-> TrueCount(l)])
    IN  [precision |-> Frac(tp, pp), recall |-> Frac(tp, tt),
         f1 |-> Frac(2 * tp, pp + tt), support |-> tt]

\* lines 65-66
ReportTargets ==
    IF "keys" \in remove_anno THEN <<<<"Hyponym-of">>, <<"Synonym-of">>>> ELSE targets

OVERALL == <<"overall">>
NOTYPES == <<"KEYPHRASE-NOTYPES">>

\* lines 65-95 when no line raises: the metrics dict
Report ==
    /\ pc = "files"
    /\ "types" \in remove_anno => NOTYPES \in Range(ReportTargets)
    /\ targets' = ReportTargets
    /\ metrics' = [l \in Range(ReportTargets) \cup {OVERALL} |->
                     IF l # OVERALL THEN LabelMetrics(l)
                     ELSE IF "types" \notin remove_anno
                          THEN MicroMetrics(Range(ReportTargets))
                          ELSE LabelMetrics(NOTYPES)]
    /\ pc' = "done"
    /\ UNCHANGED <<memn, remove_anno, ignoremissing, docs, res_all_gold, res_all_pred,
                   res_all_key, file_anno, ret>>

\* line 92 with no "KEYPHRASE-NOTYPES" among the targets: KeyError
ReportRaises ==
    /\ pc = "files"
    /\ "types" \in remove_anno
    /\ NOTYPES \notin Range(ReportTargets)
    /\ targets' = ReportTargets
    /\ metrics' = [l \in Range(ReportTargets) |-> LabelMetrics(l)]
    /\ pc' = "KeyError"
    /\ UNCHANGED <<memn, remove_anno, ignoremissing, docs, res_all_gold, res_all_pred,
                   res_all_key, file_anno, ret>>

Next == SkipOther \/ SkipMissing \/ ScoreDoc \/ ParseRaises \/ Report \/ ReportRaises

Spec == Init /\ [][Next]_vars

\* ------------------------------------ normaliseAnnotations on its own
NormInit ==
    /\ pc = "call"
    /\ \E a \in RemoveAnnoArgs : remove_anno = RemoveAnnoList(a)
    /\ file_anno \in NormFiles
    /\ ret = NoPredictions
    /\ ignoremissing = FALSE
    /\ docs = <<>>
    /\ res_all_gold = <<>>
    /\ res_all_pred = <<>>
    /\ res_all_key = <<>>
    /\ targets = <<>>
    /\ metrics = NoMetrics
    /\ memn = NoModel

\* the call returns its four lists
Normalise ==
    /\ pc = "call"
    /\ ~NormaliseAnnotations(file_anno, remove_anno).raised
    /\ ret' = NormaliseAnnotations(file_anno, remove_anno)
    /\ pc' = "returned"
    /\ UNCHANGED <<memn, remove_anno, ignoremissing, docs, res_all_gold, res_all_pred,
                   res_all_key, targets, metrics, file_anno>>

\* the call raises (IndexError, UnboundLocalError)
NormaliseRaises ==
    /\ pc = "call"
    /\ NormaliseAnnotations(file_anno, remove_anno).raised
    /\ ret' = Raised
    /\ pc' = "raised"
    /\ UNCHANGED <<memn, remove_anno, ignoremissing, docs, res_all_gold, res_all_pred,
                   res_all_key, targets, metrics, file_anno>>

NormNext == Normalise \/ NormaliseRaises

SpecNorm == NormInit /\ [][NormNext]_vars

\* ----------------------------------------------------------- calculateIAA
\* calculateIAA has no remove_anno parameter: line 122 reads the module
\* global, which only the __main__ block (lines 297-304) assigns, a str; a
\* caller that imports the module finds the name undefined (NameError)
NoGlobal == {"<undefined>"}

\* "rel" in remove_anno on a str is a substring test: of the four values
\* each contains only itself, so "types" does not imply "rel" here
RemoveAnnoGlobals == {{a} : a \in RemoveAnnoArgs} \cup {NoGlobal}

\* predicted files of the folder compared by calculateIAA: an empty file, an
\* entity, a lone relation line, a line that lost an offset
IAAPredFiles ==
    { <<>>,
      <<Ent("T1", "Process", "0", "5")>>,
      <<Ent("T2", "Task", "0", "5"), Ent("T2", "Task", "10", "15")>>,
      <<Rel("R1", "Hyponym-of", "T1", "T2")>>,
      <<Faulty("T4", "Process", "9")>> }

\* normaliseAnnotations(f, remove_anno) at lines 122 and 133
IAAParse(f) ==
    IF remove_anno = NoGlobal THEN Raised ELSE NormaliseAnnotations(f, remove_anno)

\* IAASkips without lines 124-126: only a missing file is skipped
IAASkipsMissingOnly(missing, pred) == missing /\ ignoremissing

\* the two "continue" of lines 120-131: the document is left out when the
\* predicted file gave no line, or cannot be opened and ignoremissing is set
IAASkips(missing, pred) ==
    IF missing THEN ignoremissing ELSE Len(pred.res_full) = 0

IAAInit ==
    /\ pc = "iaa"
    /\ remove_anno \in RemoveAnnoGlobals
    /\ ignoremissing \in BOOLEAN
    /\ docs = <<>>
    /\ res_all_gold = <<>>
    /\ res_all_pred = <<>>
    /\ res_all_key = <<>>
    /\ targets = <<>>
    /\ metrics = NoMetrics
    /\ file_anno = <<>>
    /\ ret = NoPredictions
    /\ memn = NoModel

\* lines 117-118
IAASkipOther ==
    /\ pc = "iaa"
    /\ Len(docs) < MaxDocs
    /\ docs' = Append(docs, Doc(FALSE, <<>>, TRUE, <<>>))
    /\ UNCHANGED <<memn, pc, remove_anno, ignoremissing, res_all_gold, res_all_pred,
                   res_all_key, targets, metrics, file_anno, ret>>

\* lines 119-131 when the loop continues: the gold file is not parsed
IAASkipDoc ==
    /\ pc = "iaa"
    /\ Len(docs) < MaxDocs
    /\ \E g \in GoldFiles, missing \in BOOLEAN, p \in IAAPredFiles :
         LET pred == IF missing THEN NoPredictions ELSE IAAParse(p)
         IN  /\ missing => p = <<>>
             /\ ~pred.raised
             /\ IAASkips(missing, pred)
             /\ docs' = Append(docs, Doc(TRUE, g, missing, p))
    /\ UNCHANGED <<memn, pc, remove_anno, ignoremissing, res_all_gold, res_all_pred,
                   res_all_key, targets, metrics, file_anno, ret>>

\* lines 119-152 for a document that is compared
IAAScoreDoc ==
    /\ pc = "iaa"
    /\ Len(docs) < MaxDocs
    /\ \E g \in GoldFiles, missing \in BOOLEAN, p \in IAAPredFiles :
         LET pred == IF missing THEN NoPredictions ELSE IAAParse(p)
             gold == IAAParse(g)
             acc == ScoreKeys(SpansAll(gold, pred), gold, pred, Len(docs) + 1,
                              [gold |-> res_all_gold, pred |-> res_all_pred,
                               key |-> res_all_key, targets |-> targets])
         IN  /\ missing => p = <<>>
             /\ ~pred.raised
             /\ ~IAASkips(missing, pred)
             /\ ~gold.raised
             /\ docs' = Append(docs, Doc(TRUE, g, missing, p))
             /\ res_all_gold' = acc.gold
             /\ res_all_pred' = acc.pred
             /\ res_all_key' = acc.key
             /\ targets' = acc.targets
    /\ UNCHANGED <<memn, pc, remove_anno, ignoremissing, metrics, file_anno, ret>>

\* lines 122 and 133: normaliseAnnotations raises (or remove_anno is
\* undefined), which is no IOError and leaves calculateIAA
IAAParseRaises ==
    /\ pc = "iaa"
    /\ Len(docs) < MaxDocs
    /\ \E g \in GoldFiles, missing \in BOOLEAN, p \in IAAPredFiles :
         LET pred == IF missing THEN NoPredictions ELSE IAAParse(p)
         IN  /\ missing => p = <<>>
             /\ \/ pred.raised
                \/ ~pred.raised /\ ~IAASkips(missing, pred) /\ IAAParse(g).raised
             /\ docs' = Append(docs, Doc(TRUE, g, missing, p))
    /\ pc' = "raised"
    /\ UNCHANGED <<memn, remove_anno, ignoremissing, res_all_gold, res_all_pred,
                   res_all_key, targets, metrics, file_anno, ret>>

\* cohen_kappa_score: (po - pe) / (1 - pe) over the two label sequences, as
\* a ratio of integers; 0/0 (one label everywhere, or no label at all) is nan
Kappa ==
    LET n == Len(res_all_gold)
        L == Range(res_all_gold) \cup Range(res_all_pred)
        agree == Cardinality({i \in 1..n : res_all_gold[i] = res_all_pred[i]})
        chance == SumOver(L, [l \in L |-> TrueCount(l) * PredCount(l)])
    IN  IF n * n = chance THEN [nan |-> TRUE, num |-> 0, den |-> 0]
        ELSE [nan |-> FALSE, num |-> n * agree - chance, den |-> n * n - chance]

\* lines 154-155: kappa is computed and printed
IAAKappa ==
    /\ pc = "iaa"
    /\ metrics' = [l \in {<<"kappa">>} |-> Kappa]
    /\ pc' = "done"
    /\ UNCHANGED <<memn, remove_anno, ignoremissing, docs, res_all_gold, res_all_pred,
                   res_all_key, targets, file_anno, ret>>

IAANext == IAASkipOther \/ IAASkipDoc \/ IAAScoreDoc \/ IAAParseRaises \/ IAAKappa

SpecIAA == IAAInit /\ [][IAANext]_vars

\* ------------------------------------------------------------- memn2n.py
\* A training script imports the module, builds MemN2N(batch_size,
\* vocab_size, ..., embedding_size) and calls batch_fit once per batch.  The
\* variables A and B exist once _build_vars has run; until then they are <<>>.
MemInit ==
    /\ pc = "import"
    /\ \E v \in 2..MaxVocab, e \in 1..MaxEmbed, b \in 0..MaxBatches :
         memn = [vocab_size |-> v, embedding_size |-> e, batches |-> b,
                 A |-> <<>>, B |-> <<>>]
    /\ remove_anno = {""}
    /\ ignoremissing = FALSE
    /\ docs = <<>>
    /\ res_all_gold = <<>>
    /\ res_all_pred = <<>>
    /\ res_all_key = <<>>
    /\ targets = <<>>
    /\ metrics = NoMetrics
    /\ file_anno = <<>>
    /\ ret = NoPredictions

\* the import compiles the module: line 36, the return statement of
\* zero_nil_slot, passes the positional argument 0 after the keyword
\* argument name=name, which Python rejects with SyntaxError, so no statement
\* of the module runs: neither zero_nil_slot nor MemN2N is defined, no
\* variable is built and no batch_fit step can be taken
ImportRaises ==
    /\ pc = "import"
    /\ pc' = "SyntaxError"
    /\ UNCHANGED <<memn, remove_anno, ignoremissing, docs, res_all_gold, res_all_pred,
                   res_all_key, targets, metrics, file_anno, ret>>

MemNext == ImportRaises

SpecMem == MemInit /\ [][MemNext]_vars

\* ------------------------------------------------- properties: the scorer
Parsed(f) == NormaliseAnnotations(f, remove_anno)
DocGold(n) == Parsed(docs[n].gold)
DocPred(n) == IF docs[n].missing THEN NoPredictions ELSE Parsed(docs[n].pred)

\* document n went through the loop body of lines 46-63
Scored(n) ==
    /\ docs[n].ann
    /\ ~(docs[n].missing /\ ignoremissing)
    /\ ~DocGold(n).raised
    /\ ~DocPred(n).raised

\* accumulated positions that belong to span key r of document n
Positions(n, r) == {i \in 1..Len(res_all_key) : res_all_key[i] = <<n, r>>}
PositionsOf(n) == {i \in 1..Len(res_all_key) : res_all_key[i][1] = n}

\* lab is the label of the first entry of (res, spans) whose span key is r
FirstLabel(res, spans, r, lab) ==
    \E j \in 1..Len(spans) :
        /\ spans[j] = r
        /\ \A k \in 1..(j - 1) : spans[k] # r
        /\ Split(res[j], SP)[1] = lab

\* C1: every span key of the union of a scored document's gold and predicted
\* keys appends exactly one label to each accumulated sequence, so the two
\* have equal length after any number of documents; a key only in gold has
\* predicted label NONE, a key only in predicted has gold label NONE, a key
\* in both has the label recorded for it in each set.
C1_ParallelSequences ==
    /\ Len(res_all_gold) = Len(res_all_pred)
    /\ Len(res_all_key) = Len(res_all_gold)
    /\ \A n \in 1..Len(docs) :
         IF ~Scored(n) THEN PositionsOf(n) = {}
         ELSE
         LET g == DocGold(n)
             p == DocPred(n)
             keys == Range(g.spans) \cup Range(p.spans)
         IN  /\ \A i \in PositionsOf(n) : res_all_key[i][2] \in keys
             /\ \A r \in keys :
                  \E i \in 1..Len(res_all_key) :
                    /\ Positions(n, r) = {i}
                    /\ IF r \in Range(g.spans)
                       THEN FirstLabel(g.res, g.spans, r, res_all_gold[i])
                       ELSE res_all_gold[i] = NONE
                    /\ IF r \in Range(p.spans)
                       THEN FirstLabel(p.res, p.spans, r, res_all_pred[i])
                       ELSE res_all_pred[i] = NONE

\* two documents scored, with a key only in gold, one only in predicted and
\* one in both
C1_Witness ==
    /\ Len(docs) = 2
    /\ Scored(1) /\ Scored(2)
    /\ PositionsOf(1) # {} /\ PositionsOf(2) # {}
    /\ \E i, j, k \in 1..Len(res_all_gold) :
         /\ res_all_gold[i] # NONE /\ res_all_pred[i] = NONE
         /\ res_all_gold[j] = NONE /\ res_all_pred[j] # NONE
         /\ res_all_gold[k] # NONE /\ res_all_pred[k] # NONE

\* C2: when the predicted file of a gold document cannot be opened, then
\* with ignoremissing false every gold span key of the document contributes
\* its gold label paired with predicted label NONE, with ignoremissing true
\* the document contributes nothing; in neither case does the missing file
\* abort the run.
C2_MissingPredicted ==
    \A n \in 1..Len(docs) :
      (docs[n].ann /\ docs[n].missing) =>
        IF ignoremissing
        THEN PositionsOf(n) = {} /\ ~(pc = "raised" /\ n = Len(docs))
        ELSE ~DocGold(n).raised =>
          LET g == DocGold(n) IN
            /\ ~(pc = "raised" /\ n = Len(docs))
            /\ \A i \in PositionsOf(n) :
                 res_all_pred[i] = NONE /\ res_all_key[i][2] \in Range(g.spans)
            /\ \A r \in Range(g.spans) :
                 \E i \in 1..Len(res_all_key) :
                   /\ Positions(n, r) = {i}
                   /\ FirstLabel(g.res, g.spans, r, res_all_gold[i])

\* a document without predictions was scored against NONE and the next
\* document was scored after it
C2_Witness ==
    /\ ~ignoremissing
    /\ Len(docs) = 2
    /\ docs[1].ann /\ docs[1].missing
    /\ Cardinality(PositionsOf(1)) >= 2
    /\ Scored(2) /\ PositionsOf(2) # {}
    /\ pc = "done"

\* labels that occur in the gold or in the predicted annotations
LabelsSeen == (Range(res_all_gold) \cup Range(res_all_pred)) \ {NONE}

\* positions predicted as l whose gold label is another one or NONE
FalsePos(l) == Cardinality({i \in 1..Len(res_all_pred) : res_all_pred[i] = l /\ res_all_gold[i] # l})

AllOne(m) == FracEq(m.precision, One) /\ FracEq(m.recall, One) /\ FracEq(m.f1, One)
AllZero(m) == FracEq(m.precision, Zero) /\ FracEq(m.recall, Zero) /\ FracEq(m.f1, Zero)

AnnDocs == {n \in 1..Len(docs) : docs[n].ann}

\* every gold document has a predicted file with the same lines, not empty
AllIdentical ==
    /\ AnnDocs # {}
    /\ \A n \in AnnDocs :
         ~docs[n].missing /\ docs[n].pred = docs[n].gold /\ docs[n].gold # <<>>

\* C3 as stated: with predicted files identical to the gold files, gold and
\* predicted labels agree at every position and precision, recall and F1 are
\* 1.0 for every reported label and for 'overall'.
C3_AsStated ==
    (AllIdentical /\ pc = "done") =>
        /\ \A i \in 1..Len(res_all_gold) :
             res_all_gold[i] = res_all_pred[i] /\ res_all_gold[i] # NONE
        /\ \A l \in DOMAIN metrics : AllOne(metrics[l])

\* C3 (amended): with predicted files identical to the gold files, gold and
\* predicted labels agree at every position and none is NONE; in the report,
\* precision, recall and F1 are 1.0 for every reported label that occurs in
\* the gold annotations and 0.0 for a reported label that does not (the two
\* relation labels forced by remove_anno = "keys"); 'overall' is 1.0 when
\* some reported label occurs and 0.0 otherwise.
C3_Identical ==
    AllIdentical =>
        /\ \A i \in 1..Len(res_all_gold) :
             res_all_gold[i] = res_all_pred[i] /\ res_all_gold[i] # NONE
        /\ pc = "done" =>
             /\ \A l \in Range(targets) :
                  IF l \in Range(res_all_gold)
                  THEN AllOne(metrics[l]) /\ metrics[l].support > 0
                  ELSE AllZero(metrics[l]) /\ metrics[l].support = 0
             /\ IF \E l \in Range(targets) : l \in Range(res_all_gold)
                THEN AllOne(metrics[OVERALL])
                ELSE AllZero(metrics[OVERALL])

\* two identical documents reported under "keys": Hyponym-of occurs,
\* Synonym-of does not
C3_Witness ==
    /\ pc = "done"
    /\ AllIdentical
    /\ Cardinality(AnnDocs) = 2
    /\ "keys" \in remove_anno
    /\ <<"Hyponym-of">> \in Range(res_all_gold)
    /\ AllOne(metrics[<<"Hyponym-of">>])
    /\ AllZero(metrics[<<"Synonym-of">>])

\* no scored document has a span key in both its gold and its predicted set
AllDisjoint ==
    \A n \in 1..Len(docs) :
        Scored(n) => Range(DocGold(n).spans) \cap Range(DocPred(n).spans) = {}

IsRelLine(l) == Len(l) >= 2 /\ EndsWithOf(Split(l[2], SP)[1])
IsEntityLine(l) == Len(l) >= 2 /\ ~IsRelLine(l)
WellFormedEntity(l) == IsEntityLine(l) /\ Len(Split(l[2], SP)) >= 3
EntityLines(f) == {l \in Range(f) : IsEntityLine(l)}

ScoredDocs == {n \in 1..Len(docs) : Scored(n)}
NoRepeat(seq) == \A i, j \in 1..Len(seq) : seq[i] = seq[j] => i = j

\* the predicted entity lines of every scored document are among its gold
\* entity lines
AllSubset ==
    /\ ScoredDocs # {}
    /\ \A n \in ScoredDocs : EntityLines(docs[n].pred) \subseteq EntityLines(docs[n].gold)

\* the keys (document, span key) whose gold label is l, and those of them
\* that are predicted
GoldKeys(l) ==
    UNION {{<<n, r>> : r \in {x \in Range(DocGold(n).spans) :
                               FirstLabel(DocGold(n).res, DocGold(n).spans, x, l)}}
           : n \in ScoredDocs}
PredictedGoldKeys(l) == {k \in GoldKeys(l) : k[2] \in Range(DocPred(k[1]).spans)}

\* C5 as stated: if the predicted entity lines of a document (at least one)
\* are a subset of its gold entity lines, every label has zero false
\* positives and precision 1.0, and its recall is its number of predicted
\* gold keys over its support.
C5_AsStated ==
    (AllSubset /\ pc = "done" /\ \A n \in ScoredDocs : EntityLines(docs[n].pred) # {}) =>
        \A l \in Range(targets) :
            /\ FalsePos(l) = 0
            /\ FracEq(metrics[l].precision, One)
            /\ metrics[l].recall = Frac(Cardinality(PredictedGoldKeys(l)), metrics[l].support)

\* every line of the file is an entity line with both offsets, or a relation
\* line that remove_anno drops
CleanFile(f) ==
    \A l \in Range(f) : WellFormedEntity(l) \/ (IsRelLine(l) /\ "rel" \in remove_anno)

C5_Pre ==
    /\ AllSubset
    /\ \A n \in ScoredDocs :
         /\ CleanFile(docs[n].gold) /\ CleanFile(docs[n].pred)
         /\ NoRepeat(DocGold(n).spans)

\* C5 (amended): if both files of every document hold only well-formed
\* entity lines (or relations are removed), the predicted lines are a subset
\* of the gold lines and no two gold lines share a span key, then every label
\* has zero false positives, each gold-only key is one false negative (gold
\* label, predicted NONE), precision is 1.0 for a reported label with at
\* least one predicted key and 0.0 for one with none, support is the label's
\* number of gold keys and recall its number of predicted gold keys over its
\* support (0.0 when the support is 0).
C5_Subset ==
    C5_Pre =>
        /\ \A l \in LabelsSeen : FalsePos(l) = 0
        /\ \A n \in ScoredDocs : \A r \in Range(DocGold(n).spans) :
             \E i \in 1..Len(res_all_key) :
               /\ Positions(n, r) = {i}
               /\ res_all_gold[i] # NONE
               /\ res_all_pred[i] = IF r \in Range(DocPred(n).spans)
                                    THEN res_all_gold[i] ELSE NONE
        /\ pc = "done" =>
             \A l \in Range(targets) :
               /\ metrics[l].precision = IF PredCount(l) > 0
                                         THEN Frac(PredCount(l), PredCount(l)) ELSE Zero
               /\ metrics[l].support = Cardinality(GoldKeys(l))
               /\ metrics[l].recall =
                    Frac(Cardinality(PredictedGoldKeys(l)), Cardinality(GoldKeys(l)))

\* the example of the claim: one label at "0 5" and "10 15" in gold, only
\* "0 5" predicted: precision 1.0, recall 1/2, support 2
C5_Witness ==
    /\ pc = "done"
    /\ C5_Pre
    /\ Len(res_all_gold) = 2
    /\ NOTYPES \in Range(targets)
    /\ \E i \in 1..2 : res_all_gold[i] = NOTYPES /\ res_all_pred[i] = NONE
    /\ FracEq(metrics[NOTYPES].precision, One)
    /\ FracEq(metrics[NOTYPES].recall, [num |-> 1, den |-> 2])
    /\ metrics[NOTYPES].support = 2

\* C6: every predicted span key that is absent from gold, or whose gold
\* label differs, is a false positive of its predicted label, counted in
\* that label's own precision and in the micro-averaged 'overall' precision,
\* for every label that occurs in gold or in predicted, labels that occur
\* only in predicted files included.
C6_FalsePositivesCounted ==
    (/\ pc = "done" /\ "keys" \notin remove_anno /\ "types" \notin remove_anno
     /\ \E l \in Range(targets) : TruePos(l) > 0) =>
        /\ \A l \in LabelsSeen :
             /\ l \in DOMAIN metrics
             /\ FracEq(metrics[l].precision, Frac(TruePos(l), TruePos(l) + FalsePos(l)))
        /\ FracEq(metrics[OVERALL].precision,
                  Frac(SumOver(LabelsSeen, [l \in LabelsSeen |-> TruePos(l)]),
                       SumOver(LabelsSeen, [l \in LabelsSeen |-> TruePos(l) + FalsePos(l)])))

\* C7: with remove_anno = "types" relation lines are dropped and every entity
\* is labelled KEYPHRASE-NOTYPES, so that for any gold and predicted folders
\* the report contains exactly that one label and 'overall' is that label's
\* record.
C7_SingleLabelReport ==
    ("types" \in remove_anno /\ pc \in {"done", "KeyError"} /\ AnnDocs # {}) =>
        /\ pc = "done"
        /\ LabelsSeen \subseteq {NOTYPES}
        /\ Range(targets) = {NOTYPES}
        /\ DOMAIN metrics = {NOTYPES, OVERALL}
        /\ metrics[OVERALL] = metrics[NOTYPES]

\* the part of C7 that the code keeps: whenever a report is produced under
\* "types" it holds the one label and 'overall' is its record
C7_WhenReported ==
    ("types" \in remove_anno /\ pc = "done") =>
        /\ LabelsSeen \subseteq {NOTYPES}
        /\ Range(targets) = {NOTYPES}
        /\ DOMAIN metrics = {NOTYPES, OVERALL}
        /\ metrics[OVERALL] = metrics[NOTYPES]

\* ------------------------------------------- properties: calculateIAA
IAAGold(n) == IAAParse(docs[n].gold)
IAAPred(n) == IF docs[n].missing THEN NoPredictions ELSE IAAParse(docs[n].pred)

\* document n is an .ann file without predicted annotations: its predicted
\* file cannot be opened, or it parses to no line
ZeroPredicted(n) ==
    /\ docs[n].ann
    /\ docs[n].missing \/ (~IAAPred(n).raised /\ Len(IAAPred(n).res_full) = 0)

\* the run ended with an exception raised while document n was read
RaisedAt(n) == pc = "raised" /\ n = Len(docs)

\* C17 as stated: calculateIAA skips every document with zero predicted
\* annotations, its file empty or not to be opened, for either value of
\* ignoremissing: it adds nothing to the label sequences.
C17_AsStated ==
    \A n \in 1..Len(docs) : ZeroPredicted(n) => PositionsOf(n) = {}

\* C17 (amended): calculateIAA skips a document, adding nothing to either
\* label sequence and without aborting, when its predicted file is opened
\* and yields no line (for either value of ignoremissing) and when the file
\* cannot be opened and ignoremissing is true; when the file cannot be opened
\* and ignoremissing is false the document is not skipped: the gold file is
\* parsed and, unless that raises, every gold span key adds its gold label
\* against NONE.
C17_SkipEmpty ==
    \A n \in 1..Len(docs) :
      docs[n].ann =>
        /\ (docs[n].missing /\ ignoremissing) =>
              PositionsOf(n) = {} /\ ~RaisedAt(n)
        /\ (~docs[n].missing /\ ~IAAPred(n).raised /\ Len(IAAPred(n).res_full) = 0) =>
              PositionsOf(n) = {} /\ ~RaisedAt(n)
        /\ (docs[n].missing /\ ~ignoremissing) =>
              IF IAAGold(n).raised THEN RaisedAt(n) /\ PositionsOf(n) = {}
              ELSE LET g == IAAGold(n) IN
                /\ ~RaisedAt(n)
                /\ \A i \in PositionsOf(n) :
                     res_all_pred[i] = NONE /\ res_all_key[i][2] \in Range(g.spans)
                /\ \A r \in Range(g.spans) :
                     \E i \in 1..Len(res_all_key) :
                       /\ Positions(n, r) = {i}
                       /\ FirstLabel(g.res, g.spans, r, res_all_gold[i])

\* an empty predicted file was skipped, then a document whose predicted file
\* is missing was compared against NONE, and kappa was computed
C17_Witness ==
    /\ pc = "done"
    /\ Len(docs) = 2
    /\ docs[1].ann /\ ~docs[1].missing /\ docs[1].pred = <<>>
    /\ ~IAAGold(1).raised /\ IAAGold(1).spans # <<>>
    /\ PositionsOf(1) = {}
    /\ docs[2].ann /\ docs[2].missing /\ ~ignoremissing
    /\ Cardinality(PositionsOf(2)) >= 2
    /\ \A i \in PositionsOf(2) : res_all_pred[i] = NONE

\* ---------------------------------- properties: normaliseAnnotations
\* an entity line with a missing offset field
FaultyLine(l) == IsEntityLine(l) /\ Len(Split(l[2], SP)) < 3
WithoutFaulty(f) == SelectSeq(f, LAMBDA l : ~FaultyLine(l))

\* C8: an entity line with missing offset fields does not raise; it is
\* skipped: it contributes no entry to the returned lines, labels or span
\* keys, and the entries returned for all other lines are those returned for
\* the input without the malformed line.
C8_FaultySkipped ==
    (pc # "call" /\ \E i \in 1..Len(file_anno) : FaultyLine(file_anno[i])) =>
        LET clean == NormaliseAnnotations(WithoutFaulty(file_anno), remove_anno) IN
            /\ pc = "raised" => clean.raised
            /\ pc = "returned" =>
                 /\ ret.res_full = clean.res_full
                 /\ ret.res = clean.res
                 /\ ret.spans = clean.spans

\* line i of f is a relation line that is read, and one of its argument
\* identifiers is the identifier of no line read so far
UnresolvedAt(f, i) ==
    /\ IsRelLine(f[i])
    /\ "rel" \notin remove_anno
    /\ LET toks == Split(f[i][2], SP) IN
         /\ Len(toks) >= 3
         /\ \E a \in {Remove(toks[2], "Arg1:"), Remove(toks[3], "Arg2:")} :
              \A j \in 1..i : f[j][1] # a

\* C9: a relation line with an argument identifier that matches no
\* previously read line raises on lookup; for every file and every position
\* of such a line no relation string is produced for it.
C9_UnresolvedRaises ==
    (pc # "call" /\ \E i \in 1..Len(file_anno) : UnresolvedAt(file_anno, i)) =>
        pc = "raised" /\ ret.rels = <<>>

\* C10 as stated: the returned span keys contain no duplicate (here for
\* files that repeat no line).
C10_AsStated == (pc = "returned" /\ NoRepeat(file_anno)) => NoRepeat(ret.spans)

\* relation lines of the file that the first loop reads
ReadRelations == {i \in 1..Len(file_anno) : IsRelLine(file_anno[i]) /\ "rel" \notin remove_anno}

\* C10 (amended): the relation strings returned by normaliseAnnotations
\* contain no duplicate, and the returned label and span sequences end with
\* exactly one entry for each of them, in the same order; the span keys of
\* entity lines are not deduplicated.
C10_RelationsDistinct ==
    pc = "returned" =>
        LET n == Len(ret.rels)
            m == Len(ret.res)
        IN  /\ NoRepeat(ret.rels)
            /\ (ReadRelations # {}) <=> (n > 0)
            /\ n <= m /\ Len(ret.spans) = m
            /\ \A i \in 1..n :
                 /\ ret.res[m - n + i] = ret.rels[i]
                 /\ ret.spans[m - n + i] =
                      Join(<<Split(ret.rels[i], SP)[2], Split(ret.rels[i], SP)[3]>>, SP)

\* two relation lines gave the same relation string, returned once
C10_Witness ==
    /\ pc = "returned"
    /\ Cardinality(ReadRelations) = 2
    /\ Len(ret.rels) = 1

\* the span key of a well-formed entity line, and the label the first loop
\* records for it
SpanKeyOf(l) == LET toks == Split(l[2], SP) IN Join(<<toks[2], toks[3]>>, SP)
LabelOf(l) == IF "types" \in remove_anno THEN NOTYPES ELSE Split(l[2], SP)[1]

\* the span keys of the well-formed entity lines of f, one per line
EntityKeys(f) ==
    LET ents == SelectSeq(f, WellFormedEntity)
    IN  [i \in 1..Len(ents) |-> SpanKeyOf(ents[i])]

\* C11: for every entity line of the input file, the span key of the line,
\* looked up in the returned span sequence (first match, as spans.index
\* does), gives the label of that same line (here for files in which no two
\* entity lines have the same span key).
C11_RoundTrip ==
    (pc = "returned" /\ NoRepeat(EntityKeys(file_anno))) =>
        \A i \in 1..Len(file_anno) :
            WellFormedEntity(file_anno[i]) =>
                /\ SpanKeyOf(file_anno[i]) \in Range(ret.spans)
                /\ LabelAt(ret.res, ret.spans, SpanKeyOf(file_anno[i])) = LabelOf(file_anno[i])

\* C12: the full lines, the labels and the span keys returned by
\* normaliseAnnotations have the same length and position i of each describes
\* the same annotation, for any input file, malformed lines included.
C12_ParallelOutputs ==
    pc = "returned" =>
        /\ Len(ret.res_full) = Len(ret.res)
        /\ Len(ret.res) = Len(ret.spans)
        /\ \A i \in 1..Len(ret.res_full) :
             LET l == ret.res_full[i] IN
             IF l[1] = <<"R">>
             THEN /\ ret.res[i] = l[2]
                  /\ ret.spans[i] = Join(<<Split(l[2], SP)[2], Split(l[2], SP)[3]>>, SP)
             ELSE /\ WellFormedEntity(l)
                  /\ Split(ret.res[i], SP)[1] = LabelOf(l)
                  /\ ret.spans[i] = SpanKeyOf(l)

\* int(offset): the number an offset atom writes
Num(a) ==
    CASE a = "0" -> 0
      [] a = "5" -> 5
      [] a = "9" -> 9
      [] a = "10" -> 10
      [] a = "15" -> 15
      [] a = "20" -> 20
      [] OTHER -> -1

\* start and end offset of an entity reference "label_start_end"
StartOf(ent) == Num(Split(ent, US)[2][1])
EndOf(ent) == Num(Split(ent, US)[3][1])

IsSynonym(r) == Split(r, SP)[1] = <<"Synonym-of">>
IsHyponym(r) == Split(r, SP)[1] = <<"Hyponym-of">>
Arg1(r) == Split(r, SP)[2]
Arg2(r) == Split(r, SP)[3]

\* C13: in every Synonym-of relation string produced by normaliseAnnotations
\* the two entity references are in ascending order of offset compared as
\* integers: the first entity's end offset is <= the second entity's.
C13_SynonymAscending ==
    pc = "returned" =>
        \A i \in 1..Len(ret.rels) :
            IsSynonym(ret.rels[i]) =>
                EndOf(Arg1(ret.rels[i])) <= EndOf(Arg2(ret.rels[i]))

\* the entity references the first loop can resolve in file f
EntityRefs(f) == {Replace(l[2], SP, US) : l \in {x \in Range(f) : IsEntityLine(x)}}

\* C14: the Synonym-of ordering step is idempotent: for every pair of entity
\* references of the file, ordering the ordered pair again changes nothing,
\* and every returned Synonym-of relation is left unchanged by the ordering.
C14_OrderIdempotent ==
    pc = "returned" =>
        /\ \A e1, e2 \in EntityRefs(file_anno) :
             LET once == SynonymOrder(e1, e2)
             IN  SynonymOrder(once[1], once[2]) = once
        /\ \A i \in 1..Len(ret.rels) :
             IsSynonym(ret.rels[i]) =>
                SynonymOrder(Arg1(ret.rels[i]), Arg2(ret.rels[i]))
                    = <<Arg1(ret.rels[i]), Arg2(ret.rels[i])>>

\* a Synonym-of line whose arguments were swapped by the ordering step came
\* back as a relation string
C14_Witness ==
    /\ pc = "returned"
    /\ \E i \in 1..Len(file_anno) :
         /\ file_anno[i] = Rel("R3", "Synonym-of", "T2", "T1")
         /\ \E j \in 1..(i - 1) : file_anno[j] = Ent("T1", "Process", "0", "5")
         /\ \E j \in 1..(i - 1) : file_anno[j] = Ent("T2", "Task", "10", "15")
    /\ \E i \in 1..Len(ret.rels) :
         /\ IsSynonym(ret.rels[i])
         /\ Arg1(ret.rels[i]) = <<"Process", US, "0", US, "5">>
         /\ Arg2(ret.rels[i]) = <<"Task", US, "10", US, "15">>

\* the member of a Synonym-of pair with the smaller start offset
SmallestOf(s) == IF StartOf(Arg1(s)) <= StartOf(Arg2(s)) THEN Arg1(s) ELSE Arg2(s)

\* C15: after normaliseAnnotations every argument of a returned Hyponym-of
\* relation that occurs in a returned Synonym-of relation is the
\* smallest-offset entity of that synonym pair.
C15_HyponymCanonical ==
    pc = "returned" =>
        \A h, s \in Range(ret.rels) :
            (IsHyponym(h) /\ IsSynonym(s)) =>
                \A e \in {Arg1(h), Arg2(h)} :
                    e \in {Arg1(s), Arg2(s)} => e = SmallestOf(s)

\* the relation strings of the file as the first loop leaves them
ReadRels == ReadLines(NormStart, file_anno, remove_anno).rels_anno

\* C16: the hyponym rewrite pass is idempotent: running it a second time on
\* the relations it produced changes no relation.
C16_RewriteFixedPoint ==
    pc = "returned" =>
        LET once == RewritePass(ReadRels, 1)
        IN  RewritePass(once, 1) = once

\* C18: once the rewrite pass has processed a Synonym-of relation (a,b), no
\* Hyponym-of relation of the list has a as head or as tail, a relation whose
\* head and tail are both a and duplicated relations included.
C18_NoneLeft ==
    pc = "returned" =>
        \A i \in 1..Len(ReadRels) :
            LET before == RewrittenBefore(ReadRels, i)
                after == RewrittenBefore(ReadRels, i + 1)
                a == Arg1(before[i])
            IN  (IsSynonym(before[i]) /\ a # Arg2(before[i])) =>
                    \A j \in 1..Len(after) :
                        IsHyponym(after[j]) => (Arg1(after[j]) # a /\ Arg2(after[j]) # a)

\* -------------------------------------------------- properties: memn2n.py
\* row 1 of matrix M exists and is all zeros
NilRowZero(M) ==
    /\ Len(M) = memn.vocab_size
    /\ \A k \in 1..memn.embedding_size : M[1][k] = 0

\* C19: once the training script has run its import and its batch_fit steps,
\* the embedding matrices A and B exist and their first (nil) row is all
\* zeros, after any number of steps.
C19_NilRowZero ==
    pc # "import" => (NilRowZero(memn.A) /\ NilRowZero(memn.B))

====
